---- MODULE Spec2Model ----
(***************************************************************************)
(* ClamSense API (src/main.py): a FastAPI application with two pure        *)
(* calculators, POST /survey/pss10/score and POST /predict, and the        *)
(* diagnostic GET /test.  One behaviour of the model is one HTTP request:  *)
(* Init is the request as it arrives together with the process             *)
(* environment, and one action per route either rejects it before the     *)
(* handler (400 when the body is not parsed, 422 at the pydantic boundary) *)
(* or runs the handler to its return statement or to the exception that    *)
(* leaves it (500).                                                        *)
(*                                                                         *)
(* Status texts are ASCII here: the emoji that start them in the source    *)
(* are left out, the words after them are kept.                            *)
(***************************************************************************)
EXTENDS Integers, Sequences, FiniteSets, TLC

VARIABLES
    request,    \* the HTTP request being served: its route and its JSON body
    environ,    \* os.environ: which of DATABASE_URL / DATABASE_NAME are set
    database,   \* what "from database import db" and the use of db do
    pc,         \* "received" -> "rejected" | "done"
    calls,      \* the handler bodies that started to run for this request
    response    \* the HTTP response: its status and its body

vars == <<request, environ, database, pc, calls, response>>

\* Python's None (no status text and no database name of the model is "None").
None == "None"

Min(a, b) == IF a <= b THEN a ELSE b
Max(a, b) == IF a >= b THEN a ELSE b

\* seq[:n] for n >= 0
Take(seq, n) == SubSeq(seq, 1, Min(n, Len(seq)))

NoResponse == [status |-> 0]

(***************************************************************************)
(* POST /survey/pss10/score                                                *)
(***************************************************************************)

\* the reversed items numbered from 1, as the questionnaire prints them
REVERSE_SCORED_OneBased == {4, 5, 7, 8}

\* REVERSE_SCORED = {3, 4, 6, 7}, 0-indexed
REVERSE_SCORED == {3, 4, 6, 7}

\* PSS10Request: answers: List[int], min_items=10, max_items=10
PSS10_MIN_ITEMS == 10
PSS10_MAX_ITEMS == 10

PSS10RequestValid(body) ==
    /\ Len(body.answers) >= PSS10_MIN_ITEMS
    /\ Len(body.answers) <= PSS10_MAX_ITEMS

\* any(a not in [0,1,2,3,4] for a in req.answers)
AnyOutOfRange(answers) ==
    \E i \in 1..Len(answers) : answers[i] \notin {0, 1, 2, 3, 4}

\* only the upper bound is enforced: min(4, int(a))
ClampedAnswers_UpperOnly(answers) ==
    [i \in 1..Len(answers) |-> Min(4, answers[i])]

\* answers = [min(4, max(0, int(a))) for a in req.answers] if any answer is
\* out of range, else req.answers
ClampedAnswers(answers) ==
    IF AnyOutOfRange(answers)
    THEN [i \in 1..Len(answers) |-> Min(4, Max(0, answers[i]))]
    ELSE answers

\* one turn of the loop: score += (4 - a) if i in REVERSE_SCORED else a,
\* with i the 0-based index of enumerate()
Contribution(i, a) == IF i \in REVERSE_SCORED THEN 4 - a ELSE a

\* score after the first n turns of "for i, a in enumerate(answers)"
RECURSIVE ScoreLoop(_, _)
ScoreLoop(answers, n) ==
    IF n = 0 THEN 0
    ELSE ScoreLoop(answers, n - 1) + Contribution(n - 1, answers[n])

\* band = "low" if score <= 13 else "moderate" if score <= 26 else "high"
PSS10_LOW_MAX == 13
PSS10_MODERATE_MAX == 26

\* the thresholds read as exclusive: score < 13, score < 26
PSS10Band_Exclusive(score) ==
    IF score < PSS10_LOW_MAX THEN "low"
    ELSE IF score < PSS10_MODERATE_MAX THEN "moderate"
    ELSE "high"

PSS10Band(score) ==
    IF score <= PSS10_LOW_MAX THEN "low"
    ELSE IF score <= PSS10_MODERATE_MAX THEN "moderate"
    ELSE "high"

PSS10Explanation(band) ==
    IF band = "low" THEN "Low perceived stress"
    ELSE IF band = "moderate"
    THEN "Moderate perceived stress - consider regular check-ins"
    ELSE "High perceived stress - try immediate coping tools and consider professional support"

\* the handler body, from the request body to PSS10Response
pss10_score(req) ==
    LET answers == ClampedAnswers(req.answers)
        score   == ScoreLoop(answers, Len(answers))
        band    == PSS10Band(score)
    IN  [score |-> score, band |-> band, explanation |-> PSS10Explanation(band)]

(***************************************************************************)
(* Python float: IEEE 754 binary64, round to nearest, ties to even.        *)
(* A float is [neg, m, e] with value (-1)^neg * m * 2^e; m is a natural    *)
(* number of exactly MantissaBits bits, or 0 (then neg = FALSE, e = 0).    *)
(* TLC's integers are 32 bits wide, so a natural number is the sequence of *)
(* its base-2^15 digits, least significant first, without leading zeros.   *)
(* Exponents stay far from the subnormal and overflow ranges for the       *)
(* magnitudes this program computes; neither is modelled.                  *)
(* The arithmetic is written as functions, which TLC applies to values:    *)
(* an argument is computed once, however often the body reads it.          *)
(***************************************************************************)
Base == 2^15

IntBitLen[n \in Nat] == IF n = 0 THEN 0 ELSE 1 + IntBitLen[n \div 2]

LimbBits == IntBitLen[Base] - 1

\* sys.float_info.mant_dig
MantissaBits == 53

Big == Seq(Nat)
Float == [neg : BOOLEAN, m : Big, e : Int]

Trim[N \in Big] ==
    IF N = <<>> THEN N
    ELSE IF N[Len(N)] = 0 THEN Trim[SubSeq(N, 1, Len(N) - 1)]
    ELSE N

BigFromInt[n \in Nat] == IF n = 0 THEN <<>> ELSE <<n % Base>> \o BigFromInt[n \div Base]

BigToInt[N \in Big] == IF N = <<>> THEN 0 ELSE N[1] + Base * BigToInt[Tail(N)]

Limb(N, i) == IF i <= Len(N) THEN N[i] ELSE 0

AddFrom[A \in Big, B \in Big, i \in Nat, c \in Nat] ==
    IF i > Max(Len(A), Len(B)) THEN (IF c = 0 THEN <<>> ELSE <<c>>)
    ELSE <<(Limb(A, i) + Limb(B, i) + c) % Base>>
         \o AddFrom[A, B, i + 1, (Limb(A, i) + Limb(B, i) + c) \div Base]

BigAdd[A \in Big, B \in Big] == AddFrom[A, B, 1, 0]

SubFrom[A \in Big, B \in Big, i \in Nat, b \in Nat] ==
    IF i > Len(A) THEN <<>>
    ELSE IF Limb(A, i) - Limb(B, i) - b < 0
    THEN <<Limb(A, i) - Limb(B, i) - b + Base>> \o SubFrom[A, B, i + 1, 1]
    ELSE <<Limb(A, i) - Limb(B, i) - b>> \o SubFrom[A, B, i + 1, 0]

\* A - B for A >= B
BigSub[A \in Big, B \in Big] == Trim[SubFrom[A, B, 1, 0]]

CmpFrom[A \in Big, B \in Big, i \in Nat] ==
    IF i = 0 THEN 0
    ELSE IF A[i] < B[i] THEN -1
    ELSE IF A[i] > B[i] THEN 1
    ELSE CmpFrom[A, B, i - 1]

\* -1, 0, 1 as A < B, A = B, A > B
BigCmp[A \in Big, B \in Big] ==
    IF Len(A) < Len(B) THEN -1
    ELSE IF Len(A) > Len(B) THEN 1
    ELSE CmpFrom[A, B, Len(A)]

MulSmallFrom[A \in Big, d \in Nat, i \in Nat, c \in Nat] ==
    IF i > Len(A) THEN BigFromInt[c]
    ELSE <<(A[i] * d + c) % Base>> \o MulSmallFrom[A, d, i + 1, (A[i] * d + c) \div Base]

\* A * d for 0 <= d <= Base
BigMulSmall[A \in Big, d \in Nat] == IF d = 0 THEN <<>> ELSE MulSmallFrom[A, d, 1, 0]

ShiftLimb[N \in Big] == IF N = <<>> THEN N ELSE <<0>> \o N

BigMulFrom[A \in Big, B \in Big, i \in Nat] ==
    IF i > Len(B) THEN <<>>
    ELSE BigAdd[BigMulSmall[A, B[i]], ShiftLimb[BigMulFrom[A, B, i + 1]]]

BigMul[A \in Big, B \in Big] == BigMulFrom[A, B, 1]

\* the quotient digits of A[1..i] after remainder r, most significant last,
\* then the final remainder as the first element
DivSmallFrom[A \in Big, k \in Nat, i \in Nat, r \in Nat] ==
    IF i = 0 THEN <<r>>
    ELSE DivSmallFrom[A, k, i - 1, (r * Base + A[i]) % k] \o <<(r * Base + A[i]) \div k>>

DivSmallResult[d \in Big] == [q |-> Trim[Tail(d)], r |-> d[1]]

\* quotient and remainder of A by k, 0 < k <= Base
BigDivSmall[A \in Big, k \in Nat] == DivSmallResult[DivSmallFrom[A, k, Len(A), 0]]

BitLen[N \in Big] ==
    IF N = <<>> THEN 0 ELSE LimbBits * (Len(N) - 1) + IntBitLen[N[Len(N)]]

\* N * 2^n
ShiftLeft[N \in Big, n \in Nat] ==
    IF N = <<>> \/ n = 0 THEN N
    ELSE IF n >= LimbBits THEN ShiftLeft[<<0>> \o N, n - LimbBits]
    ELSE BigMulSmall[N, 2^n]

\* floor(N / 2^n)
ShiftRight[N \in Big, n \in Nat] ==
    IF N = <<>> \/ n = 0 THEN N
    ELSE IF n >= LimbBits THEN ShiftRight[Tail(N), n - LimbBits]
    ELSE BigDivSmall[N, 2^n].q

\* 0.0
Zero == [neg |-> FALSE, m |-> <<>>, e |-> 0]

\* q or q + 1 as a float mantissa with exponent e
Normalised[neg \in BOOLEAN, q \in Big, e \in Int] ==
    IF BitLen[q] > MantissaBits
    THEN [neg |-> neg, m |-> ShiftRight[q, 1], e |-> e + 1]
    ELSE [neg |-> neg, m |-> q, e |-> e]

\* q rounded up or not: c is how the discarded part r + f compares with
\* half a unit of q (-1, 0, 1 for r against the half, f > 0 when sticky)
RoundedUp[q \in Big, c \in Int, sticky \in BOOLEAN] ==
    IF c > 0 \/ (c = 0 /\ (sticky \/ q[1] % 2 = 1)) THEN BigAdd[q, <<1>>] ELSE q

\* N with its s lowest bits rounded away
RoundBits[N \in Big, s \in Nat, q \in Big, sticky \in BOOLEAN] ==
    RoundedUp[q, BigCmp[BigSub[N, ShiftLeft[q, s]], ShiftLeft[<<1>>, s - 1]], sticky]

\* The float nearest to (-1)^neg * (N + f) * 2^e, ties to even, where
\* 0 < f < 1 when sticky and f = 0 otherwise (sticky needs BitLen(N) > 53).
RoundToFloat[neg \in BOOLEAN, N \in Big, e \in Int, sticky \in BOOLEAN] ==
    IF N = <<>> THEN Zero
    ELSE IF BitLen[N] <= MantissaBits
    THEN [neg |-> neg, m |-> ShiftLeft[N, MantissaBits - BitLen[N]],
          e |-> e - (MantissaBits - BitLen[N])]
    ELSE Normalised[neg,
                    RoundBits[N, BitLen[N] - MantissaBits,
                              ShiftRight[N, BitLen[N] - MantissaBits], sticky],
                    e + (BitLen[N] - MantissaBits)]

Abs(n) == IF n < 0 THEN -n ELSE n

\* float(n) for an int n
FromInt[n \in Int] == RoundToFloat[n < 0, BigFromInt[Abs(n)], 0, FALSE]

QuotientRemainder == [q : Big, r : Nat]

Quotient[neg \in BOOLEAN, dv \in QuotientRemainder, e \in Int] ==
    RoundToFloat[neg, dv.q, e, dv.r # 0]

\* the float a decimal literal n/d denotes (0.35 is FromRatio[35, 100]),
\* 0 < d <= Base
FromRatio[n \in Int, d \in Nat] ==
    Quotient[n < 0, BigDivSmall[ShiftLeft[BigFromInt[Abs(n)], 70], d], -70]

\* -1, 0, 1 as |x| < |y|, |x| = |y|, |x| > |y|
CmpMagnitude[x \in Float, y \in Float] ==
    IF x.m = <<>> \/ y.m = <<>>
    THEN (IF x.m = y.m THEN 0 ELSE IF x.m = <<>> THEN -1 ELSE 1)
    ELSE IF x.e < y.e THEN -1
    ELSE IF x.e > y.e THEN 1
    ELSE BigCmp[x.m, y.m]

\* x < y
FLess[x \in Float, y \in Float] ==
    IF x.neg /\ ~y.neg THEN TRUE
    ELSE IF ~x.neg /\ y.neg THEN FALSE
    ELSE IF x.neg THEN CmpMagnitude[x, y] > 0
    ELSE CmpMagnitude[x, y] < 0

FNeg[x \in Float] == IF x.m = <<>> THEN x ELSE [x EXCEPT !.neg = ~x.neg]

\* X * 2^e + Y * 2^e with the signs xneg, yneg
AddAligned[xneg \in BOOLEAN, X \in Big, yneg \in BOOLEAN, Y \in Big, e \in Int] ==
    IF xneg = yneg THEN RoundToFloat[xneg, BigAdd[X, Y], e, FALSE]
    ELSE IF BigCmp[X, Y] = 0 THEN Zero
    ELSE IF BigCmp[X, Y] > 0 THEN RoundToFloat[xneg, BigSub[X, Y], e, FALSE]
    ELSE RoundToFloat[yneg, BigSub[Y, X], e, FALSE]

\* x + y
FAdd[x \in Float, y \in Float] ==
    IF x.m = <<>> THEN y
    ELSE IF y.m = <<>> THEN x
    ELSE AddAligned[x.neg, ShiftLeft[x.m, x.e - Min(x.e, y.e)],
                    y.neg, ShiftLeft[y.m, y.e - Min(x.e, y.e)], Min(x.e, y.e)]

\* x - y
FSub[x \in Float, y \in Float] == FAdd[x, FNeg[y]]

\* x * y
FMul[x \in Float, y \in Float] ==
    RoundToFloat[x.neg # y.neg, BigMul[x.m, y.m], x.e + y.e, FALSE]

\* x / k for an int k, 0 < k <= Base
FDivInt[x \in Float, k \in Nat] ==
    Quotient[x.neg, BigDivSmall[ShiftLeft[x.m, 70], k], x.e - 70]

\* x * 2^s
Scaled[x \in Float, s \in Int] == IF x.m = <<>> THEN x ELSE [x EXCEPT !.e = @ + s]

\* a / k for the ints a = n * 2^shift >= 0 and 0 < k <= Base: the float
\* nearest to the quotient, whatever its size; rounding n / k and scaling
\* by 2^shift is rounding a / k
IntTrueDivide[n \in Nat, shift \in Nat, k \in Nat] ==
    Scaled[Quotient[FALSE, BigDivSmall[ShiftLeft[BigFromInt[n], 70], k], -70], shift]

\* the largest float is below 2^1024
MaxExponent == 1024

\* "OverflowError: integer division result too large for a float"
Overflows[x \in Float] == x.m # <<>> /\ x.e + MantissaBits > MaxExponent

\* Python's two-argument min and max: min(a, b) is b if b < a else a
FMin[a \in Float, b \in Float] == IF FLess[b, a] THEN b ELSE a
FMax[a \in Float, b \in Float] == IF FLess[a, b] THEN b ELSE a

\* x >= lo and x <= hi
FGe[x \in Float, lo \in Float] == ~FLess[x, lo]
FLe[x \in Float, hi \in Float] == ~FLess[hi, x]

\* q rounded to the nearest integer, ties to even, from floor and remainder
NearestEven[q \in Nat, half \in Int] ==
    IF half > 0 \/ (half = 0 /\ q % 2 = 1) THEN q + 1 ELSE q

HalfCmp[r \in Big, s \in Nat] ==
    IF r = <<>> THEN -1 ELSE BigCmp[r, ShiftLeft[<<1>>, s - 1]]

\* N * 2^(-s) rounded to the nearest integer, ties to even
NearestInt[N \in Big, s \in Int] ==
    IF s <= 0 THEN BigToInt[ShiftLeft[N, -s]]
    ELSE NearestEven[BigToInt[ShiftRight[N, s]],
                     HalfCmp[BigSub[N, ShiftLeft[ShiftRight[N, s], s]], s]]

Signed[neg \in BOOLEAN, k \in Nat] == IF neg THEN -k ELSE k

\* round(x, ndigits) of a float x, 0 <= ndigits <= 4: the float nearest to
\* the decimal with ndigits places that is nearest to the exact value of x,
\* ties to the even last place (CPython's float.__round__, correctly
\* rounded through dtoa)
PyRound[x \in Float, ndigits \in Nat] ==
    FromRatio[Signed[x.neg, NearestInt[BigMulSmall[x.m, 10^ndigits], -x.e]], 10^ndigits]

(***************************************************************************)
(* POST /predict                                                           *)
(*                                                                         *)
(* A float field of the JSON body is written in hundredths: heart_rate =   *)
(* 8850 is the JSON number 88.50, which pydantic turns into the nearest    *)
(* float.  pss10_score is <<>> for an absent (None) score and <<p>> for    *)
(* the int p.  steps is the JSON integer n * 2^shift, written [n, shift].   *)
(*                                                                         *)
(* FastAPI reads the body with json.loads before pydantic sees it.         *)
(* CPython (3.11 and later, sys.int_max_str_digits at its default) turns   *)
(* an integer literal into an int only when it has at most 4300 digits;    *)
(* for a longer one json.loads raises ValueError and FastAPI answers 400   *)
(* "There was an error parsing the body" without validating the body or    *)
(* calling the handler.                                                    *)
(***************************************************************************)
\* 10^4300, the least integer of 4301 digits, has 14285 bits ...
Pow10LimitBits == 14285

LeadingBits == 4 * LimbBits

\* ... of which the leading 60 are 705198987150185509, and the bits after
\* them are not all 0
Pow10LimitTop == <<21541, 10778, 31480, 20042>>

\* |n * 2^shift| >= 10^4300: the literal has more than 4300 digits
IntLiteralTooLong[n \in Int, shift \in Nat] ==
    IF n = 0 THEN FALSE
    ELSE IF BitLen[BigFromInt[Abs(n)]] + shift # Pow10LimitBits
    THEN BitLen[BigFromInt[Abs(n)]] + shift > Pow10LimitBits
    ELSE BigCmp[ShiftLeft[BigFromInt[Abs(n)], LeadingBits - BitLen[BigFromInt[Abs(n)]]],
                Pow10LimitTop] > 0

\* json.loads of the /predict body succeeds
PredictBodyParses(body) == ~IntLiteralTooLong[body.steps.n, body.steps.shift]

JsonFloat[hundredths \in Int] == FromRatio[hundredths, 100]

\* the float literals of the source
F_0_4 == FromRatio[4, 10]
F_0_15 == FromRatio[15, 100]
F_0_3 == FromRatio[3, 10]
F_0_35 == FromRatio[35, 100]
F_0_25 == FromRatio[25, 100]
F_0_10 == FromRatio[10, 100]
F_0_33 == FromRatio[33, 100]
F_0_66 == FromRatio[66, 100]
F_0_6 == FromRatio[6, 10]
F_55 == FromInt[55]
F_14 == FromInt[14]

One == FromInt[1]

\* heart_rate declared ge=0 where the source says gt=0
PredictRequestValid_HeartRateGe(body) ==
    /\ FGe[JsonFloat[body.heart_rate], Zero]
    /\ FGe[JsonFloat[body.sleep_hours], Zero]
    /\ FLe[JsonFloat[body.sleep_hours], F_14]
    /\ body.steps.n >= 0
    /\ body.day_of_week >= 0 /\ body.day_of_week <= 6
    /\ body.hour >= 0 /\ body.hour <= 23
    /\ FGe[JsonFloat[body.mood_score], Zero]
    /\ FLe[JsonFloat[body.mood_score], One]
    /\ \A i \in 1..Len(body.pss10_score) :
          body.pss10_score[i] >= 0 /\ body.pss10_score[i] <= 40

\* PredictRequest: the Field(...) constraints of its seven fields
PredictRequestValid(body) ==
    /\ FLess[Zero, JsonFloat[body.heart_rate]]                  \* gt=0
    /\ FGe[JsonFloat[body.sleep_hours], Zero]                   \* ge=0
    /\ FLe[JsonFloat[body.sleep_hours], F_14]                  \* le=14
    /\ body.steps.n >= 0                                        \* ge=0
    /\ body.day_of_week >= 0 /\ body.day_of_week <= 6           \* ge=0, le=6
    /\ body.hour >= 0 /\ body.hour <= 23                        \* ge=0, le=23
    /\ FGe[JsonFloat[body.mood_score], Zero]                    \* ge=0
    /\ FLe[JsonFloat[body.mood_score], One]                     \* le=1
    /\ \A i \in 1..Len(body.pss10_score) :                      \* None, or ge=0, le=40
          body.pss10_score[i] >= 0 /\ body.pss10_score[i] <= 40

\* min(1.0, max(0.0, (req.heart_rate - 55) / 55))
hr_component(req) ==
    FMin[One, FMax[Zero, FDivInt[FSub[JsonFloat[req.heart_rate], F_55], 55]]]

\* 1.0 - min(1.0, req.sleep_hours / 8.0)
sleep_component(req) ==
    FSub[One, FMin[One, FDivInt[JsonFloat[req.sleep_hours], 8]]]

\* req.steps / 8000, int by int
StepsQuotient(req) == IntTrueDivide[req.steps.n, req.steps.shift, 8000]

\* max(0.0, 1.0 - min(1.0, req.steps / 8000)) * 0.4
steps_component(req) ==
    FMul[FMax[Zero, FSub[One, FMin[One, StepsQuotient(req)]]], F_0_4]

\* 1.0 - req.mood_score
mood_component(req) == FSub[One, JsonFloat[req.mood_score]]

\* 0.15 if req.hour in [10, 11, 15, 16] else 0.0
PEAK_HOURS == {10, 11, 15, 16}

circadian_component(req) ==
    IF req.hour \in PEAK_HOURS THEN F_0_15 ELSE Zero

\* 0.0, or min(1.0, req.pss10_score / 40.0) * 0.3 when the score is given
baseline_component(req) ==
    IF req.pss10_score = <<>> THEN Zero
    ELSE FMul[FMin[One, FDivInt[FromInt[req.pss10_score[1]], 40]], F_0_3]

\* risk = 0.35*hr + 0.25*sleep + 0.15*mood + 0.10*steps + circadian + baseline,
\* added left to right
WeightedSum(hr, sleep, mood, steps, circadian, baseline) ==
    FAdd[FAdd[FAdd[FAdd[FAdd[FMul[F_0_35, hr],
                             FMul[F_0_25, sleep]],
                        FMul[F_0_15, mood]],
                   FMul[F_0_10, steps]],
              circadian],
         baseline]

\* risk = max(0.0, min(1.0, risk))
ClampRisk(risk) == FMax[Zero, FMin[One, risk]]

\* the band taken from the rounded level instead of the unrounded risk
RiskBand_OfRounded(risk) ==
    IF FLess[PyRound[risk, 3], F_0_33] THEN "low"
    ELSE IF FLess[PyRound[risk, 3], F_0_66] THEN "moderate"
    ELSE "high"

\* band = "low" if risk < 0.33 else "moderate" if risk < 0.66 else "high"
RiskBand(risk) ==
    IF FLess[risk, F_0_33] THEN "low"
    ELSE IF FLess[risk, F_0_66] THEN "moderate"
    ELSE "high"

\* if cond: factors.append(tag)
AppendIf(cond, factors, tag) == IF cond THEN Append(factors, tag) ELSE factors

Factors(hr, sleep, mood, steps, circadian, baseline) ==
    AppendIf(FLess[F_0_15, baseline],
      AppendIf(FLess[Zero, circadian],
        AppendIf(FLess[F_0_4, steps],
          AppendIf(FLess[F_0_6, mood],
            AppendIf(FLess[F_0_6, sleep],
              AppendIf(FLess[F_0_6, hr],
                <<>>, "elevated heart rate"),
              "short sleep duration"),
            "low self-reported mood"),
          "very low activity"),
        "typical peak hours"),
      "high baseline stress")

\* round(risk, 3)
PredictedLevel(risk) == PyRound[risk, 3]

\* the six components, in the order the handler computes them
Components(req) ==
    [hr        |-> hr_component(req),
     sleep     |-> sleep_component(req),
     steps     |-> steps_component(req),
     mood      |-> mood_component(req),
     circadian |-> circadian_component(req),
     baseline  |-> baseline_component(req)]

ComponentValues ==
    [hr : Float, sleep : Float, steps : Float, mood : Float,
     circadian : Float, baseline : Float]

Risk(c) ==
    ClampRisk(WeightedSum(c.hr, c.sleep, c.mood, c.steps, c.circadian, c.baseline))

\* return PredictResponse(predicted_level=round(risk, 3), risk_band=band,
\* factors=factors)
PredictResponse[c \in ComponentValues, risk \in Float] ==
    [predicted_level |-> PredictedLevel(risk),
     risk_band       |-> RiskBand(risk),
     factors         |-> Factors(c.hr, c.sleep, c.mood, c.steps, c.circadian, c.baseline)]

\* the handler from the six components on
PredictFrom[c \in ComponentValues] == PredictResponse[c, Risk(c)]

\* the handler: the HTTP response it ends in.  req.steps / 8000 raises
\* OverflowError when the quotient is too large for a float; nothing in the
\* handler catches it and the exception that leaves it is FastAPI's 500.
predict(req) ==
    IF Overflows[StepsQuotient(req)] THEN [status |-> 500]
    ELSE [status |-> 200, body |-> PredictFrom[Components(req)]]

(***************************************************************************)
(* GET /test                                                               *)
(*                                                                         *)
(* database describes the optional collaborator:                           *)
(*   import       what "from database import db" does: "ImportError" (no   *)
(*                module, or no db in it), "Exception" (the module raises  *)
(*                while it loads) or "ok";                                 *)
(*   db           "None" or "object";                                      *)
(*   name         "absent" (hasattr(db, 'name') is False: the attribute    *)
(*                lookup raises AttributeError), "value" (db.name is       *)
(*                name_value), "ImportError" (the lookup raises an         *)
(*                ImportError) or "Exception" (it raises another           *)
(*                Exception); hasattr lets both through;                   *)
(*   list         what db.list_collection_names() does: "ImportError" or   *)
(*                "Exception" as above, or "ok", and it then returns       *)
(*                collections;                                             *)
(*   message      str(e) of the exception raised, as a sequence of         *)
(*                characters.                                              *)
(* A status text is a sequence: its fixed words, then the characters of    *)
(* the message appended to them.                                           *)
(* The texts are the source's without their leading pictograph, which     *)
(* the module's character set cannot hold.                                 *)
(***************************************************************************)
Text(words, detail) == <<words>> \o detail

\* response = {...}, lines 29-36
InitialResponse ==
    [backend           |-> "Running",
     database          |-> Text("Not Available", <<>>),
     database_url      |-> None,
     database_name     |-> None,
     connection_status |-> "Not Connected",
     collections       |-> <<>>]

\* the inner try / except Exception around db.list_collection_names()
ListCollections(resp, d) ==
    IF d.list = "ok"
    THEN [resp EXCEPT !.collections = Take(d.collections, 10),
                      !.database = Text("Connected & Working", <<>>)]
    ELSE [resp EXCEPT !.database = Text("Connected but Error: ", Take(d.message, 50))]

\* the body of the outer try: the response as far as it got, and the
\* exception that leaves the body ("none" when it runs to its end)
TryBody(resp, d) ==
    IF d.import # "ok" THEN [response |-> resp, raised |-> d.import]
    ELSE IF d.db = "None"
    THEN [response |-> [resp EXCEPT !.database = Text("Available but not initialized", <<>>)],
          raised   |-> "none"]
    ELSE LET r1 == [resp EXCEPT !.database = Text("Available", <<>>),
                                !.database_url = "Configured"]
         IN  IF d.name \in {"ImportError", "Exception"}
             THEN [response |-> r1, raised |-> d.name]
             ELSE LET r2 == [r1 EXCEPT
                                !.database_name =
                                    IF d.name = "value" THEN d.name_value ELSE "Connected",
                                !.connection_status = "Connected"]
                  IN  [response |-> ListCollections(r2, d), raised |-> "none"]

\* only "except ImportError" is there
ExceptClauses_ImportErrorOnly(t, d) ==
    IF t.raised = "ImportError"
    THEN [response |-> [t.response EXCEPT !.database =
                           Text("Database module not found (run enable-database first)", <<>>)],
          raised   |-> "none"]
    ELSE t

\* except ImportError: ... except Exception as e: ...
ExceptClauses(t, d) ==
    IF t.raised = "ImportError"
    THEN [response |-> [t.response EXCEPT !.database =
                           Text("Database module not found (run enable-database first)", <<>>)],
          raised   |-> "none"]
    ELSE IF t.raised = "Exception"
    THEN [response |-> [t.response EXCEPT !.database =
                           Text("Error: ", Take(d.message, 50))],
          raised   |-> "none"]
    ELSE t

\* bool(os.getenv(name)): an unset variable is None, a variable set to the
\* empty string is "", and both are falsy
Truthy(value) == value # None /\ value # ""

\* the environment fills in only the fields the try block left at None
CheckEnvironment_FillMissing(resp, env) ==
    [resp EXCEPT !.database_url  = IF resp.database_url # None THEN resp.database_url
                                   ELSE IF Truthy(env.DATABASE_URL) THEN "Set" ELSE "Not Set",
                 !.database_name = IF resp.database_name # None THEN resp.database_name
                                   ELSE IF Truthy(env.DATABASE_NAME) THEN "Set" ELSE "Not Set"]

\* "Check environment variables", lines 64-66
CheckEnvironment(resp, env) ==
    [resp EXCEPT !.database_url  = IF Truthy(env.DATABASE_URL) THEN "Set" ELSE "Not Set",
                 !.database_name = IF Truthy(env.DATABASE_NAME) THEN "Set" ELSE "Not Set"]

\* the handler: the HTTP response it ends in; an exception that leaves
\* the handler is FastAPI's 500
test_database(d, env) ==
    LET t == ExceptClauses(TryBody(InitialResponse, d), d)
    IN  IF t.raised # "none" THEN [status |-> 500]
        ELSE [status |-> 200, body |-> CheckEnvironment(t.response, env)]

(***************************************************************************)
(* The requests served                                                     *)
(***************************************************************************)

\* Survey bodies: every answer is baseNormal, or baseReverse at a
\* reverse-scored position, except at up to MaxDeviations positions, which
\* hold any value of AnswerValues.
MaxDeviations == 2

AnswerValues == {-7, -1, 0, 1, 2, 3, 4, 5, 9}
BaseValues == {-1, 0, 2, 4, 5}
AnswerCounts == {0, 9, 10, 11}

DeviationSets(n) == {P \in SUBSET (1..n) : Cardinality(P) <= MaxDeviations}

\* n answers: f[i] at the positions of P, and elsewhere baseReverse at a
\* reverse-scored position and baseNormal at the others
SurveyBody(n, baseNormal, baseReverse, P, f) ==
    [answers |-> [i \in 1..n |->
                    IF i \in P THEN f[i]
                    ELSE IF (i - 1) \in REVERSE_SCORED THEN baseReverse
                    ELSE baseNormal]]

\* Predict bodies: a grid of valid fields, and the bodies that differ from
\* a valid one in one field that is out of its declared range.
HeartRates == {5500, 8800, 8801, 11000}
SleepHours == {0, 319, 320, 800}
Steps(n) == [n |-> n, shift |-> 0]

\* the last two are 15999 * 2^1023 and 16000 * 2^1023: the quotients by
\* 8000 are the largest float but a few and 2^1024
StepCounts == {Steps(0), Steps(4000), Steps(8000), Steps(12000),
               [n |-> 15999, shift |-> 1023], [n |-> 16000, shift |-> 1023]}
Hours      == {0, 10, 16}
MoodScores == {0, 39, 40, 100}
PssScores  == {<<>>, <<20>>, <<21>>, <<24>>, <<40>>}

ValidPredictBodies ==
    [heart_rate : HeartRates, sleep_hours : SleepHours, steps : StepCounts,
     day_of_week : {0, 6}, hour : Hours, mood_score : MoodScores,
     pss10_score : PssScores]

SeedPredictBodies ==
    [heart_rate : {5500, 11000}, sleep_hours : {0, 800}, steps : {Steps(0)},
     day_of_week : {0}, hour : {10}, mood_score : {0, 100}, pss10_score : {<<>>, <<40>>}]

InvalidPredictBodies ==
    UNION { { [b EXCEPT !.heart_rate = v]  : v \in {0, -100} }
            \cup { [b EXCEPT !.sleep_hours = v] : v \in {-1, 1401} }
            \cup { [b EXCEPT !.steps = v]       : v \in {Steps(-1)} }
            \cup { [b EXCEPT !.day_of_week = v] : v \in {-1, 7} }
            \cup { [b EXCEPT !.hour = v]        : v \in {-1, 24} }
            \cup { [b EXCEPT !.mood_score = v]  : v \in {-1, 101} }
            \cup { [b EXCEPT !.pss10_score = v] : v \in {<<-1>>, <<41>>} }
            : b \in SeedPredictBodies }

\* steps around 10^4300 = 1313535472.2... * 2^14254: 4300 and 4301 digits
LongSteps ==
    {[n |-> 1313535472, shift |-> 14254], [n |-> 1313535473, shift |-> 14254],
     [n |-> 1, shift |-> 14284], [n |-> 1, shift |-> 14285], [n |-> 1, shift |-> 20000],
     [n |-> -1313535472, shift |-> 14254], [n |-> -1313535473, shift |-> 14254]}

LongPredictBodies ==
    { [b EXCEPT !.steps = v] : b \in SeedPredictBodies, v \in LongSteps }

PredictBodies == ValidPredictBodies \cup InvalidPredictBodies \cup LongPredictBodies

\* The collaborator: messages of 0..MaxMessage characters, 0..MaxCollections
\* collections.
MaxMessage == 51
MaxCollections == 11

Message(n) == [i \in 1..n |-> "x"]
Collections(n) == [i \in 1..n |-> i]

Database(import, db, name, list, n, len) ==
    [import |-> import, db |-> db, name |-> name, name_value |-> "clamsense",
     list |-> list, collections |-> Collections(n), message |-> Message(len)]

Raised == {"ImportError", "Exception"}

Databases ==
    { Database("ImportError", "None", "absent", "ok", 0, 0) }
    \cup { Database("Exception", "None", "absent", "ok", 0, len) : len \in 0..MaxMessage }
    \cup { Database("ok", "None", "absent", "ok", 0, 0) }
    \cup { Database("ok", "object", raised, "ok", 0, len) :
             raised \in Raised, len \in 0..MaxMessage }
    \cup { Database("ok", "object", name, "ok", n, 0) :
             name \in {"absent", "value"}, n \in 0..MaxCollections }
    \cup { Database("ok", "object", name, raised, 0, len) :
             name \in {"absent", "value"}, raised \in Raised, len \in 0..MaxMessage }

Environments ==
    [DATABASE_URL : {None, "", "mongodb://localhost:27017"},
     DATABASE_NAME : {None, "", "clamsense"}]

\* no environment variable set, no database module
NoEnvironment == [DATABASE_URL |-> None, DATABASE_NAME |-> None]
NoDatabase == Database("ImportError", "None", "absent", "ok", 0, 0)

(***************************************************************************)
(* The state machine                                                       *)
(***************************************************************************)
Arrives(req, env, d) ==
    /\ request = req
    /\ environ = env
    /\ database = d
    /\ pc = "received"
    /\ calls = {}
    /\ response = NoResponse

InitSurvey ==
    \E n \in AnswerCounts, baseNormal \in BaseValues, baseReverse \in BaseValues :
        \E P \in DeviationSets(n) :
            \E f \in [P -> AnswerValues] :
                Arrives([route |-> "/survey/pss10/score",
                         body  |-> SurveyBody(n, baseNormal, baseReverse, P, f)],
                        NoEnvironment, NoDatabase)

InitPredict ==
    \E body \in PredictBodies :
        Arrives([route |-> "/predict", body |-> body], NoEnvironment, NoDatabase)

InitTest ==
    \E env \in Environments, d \in Databases :
        Arrives([route |-> "/test", body |-> <<>>], env, d)

InitGreeting ==
    \E route \in {"/", "/api/hello"} :
        Arrives([route |-> route, body |-> <<>>], NoEnvironment, NoDatabase)

Init == InitSurvey \/ InitPredict \/ InitTest \/ InitGreeting

\* FastAPI answers 400 when the body is not parsed and 422 when it does not
\* validate; the handler is not called
Reject(status) ==
    /\ pc' = "rejected"
    /\ response' = [status |-> status]
    /\ UNCHANGED <<request, environ, database, calls>>

\* the handler runs to its return statement
Return(handler, resp) ==
    /\ pc' = "done"
    /\ calls' = calls \cup {handler}
    /\ response' = resp
    /\ UNCHANGED <<request, environ, database>>

RejectPSS10 ==
    /\ pc = "received"
    /\ request.route = "/survey/pss10/score"
    /\ ~PSS10RequestValid(request.body)
    /\ Reject(422)

ScorePSS10 ==
    /\ pc = "received"
    /\ request.route = "/survey/pss10/score"
    /\ PSS10RequestValid(request.body)
    /\ Return("pss10_score", [status |-> 200, body |-> pss10_score(request.body)])

BadRequestPredict ==
    /\ pc = "received"
    /\ request.route = "/predict"
    /\ ~PredictBodyParses(request.body)
    /\ Reject(400)

RejectPredict ==
    /\ pc = "received"
    /\ request.route = "/predict"
    /\ PredictBodyParses(request.body)
    /\ ~PredictRequestValid(request.body)
    /\ Reject(422)

Predict ==
    /\ pc = "received"
    /\ request.route = "/predict"
    /\ PredictBodyParses(request.body)
    /\ PredictRequestValid(request.body)
    /\ Return("predict", predict(request.body))

TestDatabase ==
    /\ pc = "received"
    /\ request.route = "/test"
    /\ Return("test_database", test_database(database, environ))

ReadRoot ==
    /\ pc = "received"
    /\ request.route = "/"
    /\ Return("read_root", [status |-> 200, body |-> [message |-> "Hello from FastAPI Backend!"]])

Hello ==
    /\ pc = "received"
    /\ request.route = "/api/hello"
    /\ Return("hello", [status |-> 200, body |-> [message |-> "Hello from the backend API!"]])

NextSurvey == RejectPSS10 \/ ScorePSS10
NextPredict == BadRequestPredict \/ RejectPredict \/ Predict
NextTest == TestDatabase

Next ==
    \/ RejectPSS10 \/ ScorePSS10
    \/ BadRequestPredict \/ RejectPredict \/ Predict
    \/ TestDatabase \/ ReadRoot \/ Hello

SpecSurvey == InitSurvey /\ [][NextSurvey]_vars
SpecPredict == InitPredict /\ [][NextPredict]_vars
SpecTest == InitTest /\ [][NextTest]_vars
Spec == Init /\ [][Next]_vars

(***************************************************************************)
(* Properties                                                              *)
(***************************************************************************)
Served(route) == request.route = route /\ pc # "received"
Returned(route) == request.route = route /\ pc = "done"

Answers == request.body.answers

AllWithin(answers, lo, hi) ==
    \A i \in 1..Len(answers) : lo <= answers[i] /\ answers[i] <= hi

\* the PSS-10 sum of ten answers, items 4, 5, 7 and 8 reversed
ReverseScoredSum(a) ==
    a[1] + a[2] + a[3] + (4 - a[4]) + (4 - a[5]) + a[6] + (4 - a[7]) + (4 - a[8])
    + a[9] + a[10]

Nearest04(a) == IF a < 0 THEN 0 ELSE IF a > 4 THEN 4 ELSE a

\* C1: for ten answers, each in 0..4, pss10_score returns the sum of a_i,
\* or 4 - a_i at the 0-based positions 3, 4, 6, 7; the score is in 0..40,
\* 16 for ten zeros and 24 for ten fours.
C1_ScoreIsReverseScoredSum ==
    (Served("/survey/pss10/score") /\ Len(Answers) = 10 /\ AllWithin(Answers, 0, 4))
    => /\ pc = "done"
       /\ response.status = 200
       /\ response.body.score = ReverseScoredSum(Answers)
       /\ response.body.score \in 0..40
       /\ (Answers = [i \in 1..10 |-> 0]) => response.body.score = 16
       /\ (Answers = [i \in 1..10 |-> 4]) => response.body.score = 24

\* ten in-range answers with every reversed item at 4 and the rest at 0
\* score 0
C1_Witness ==
    /\ Returned("/survey/pss10/score")
    /\ Len(Answers) = 10
    /\ AllWithin(Answers, 0, 4)
    /\ \E i \in 1..10 : Answers[i] = 4
    /\ response.body.score = 0

\* C2: ten integers, some outside 0..4, are not rejected: each answer
\* below 0 counts as 0 and each above 4 as 4, the response is the one of
\* the clamped answers, and the score is in 0..40.
C2_OutOfRangeAnswersAreClamped ==
    (Served("/survey/pss10/score") /\ Len(Answers) = 10)
    => /\ pc = "done"
       /\ response.status = 200
       /\ response.body.score = ReverseScoredSum([i \in 1..10 |-> Nearest04(Answers[i])])
       /\ response.body = pss10_score([answers |-> [i \in 1..10 |-> Nearest04(Answers[i])]])
       /\ response.body.score \in 0..40

\* a request with an answer below 0 and an answer above 4 is scored
C2_Witness ==
    /\ Returned("/survey/pss10/score")
    /\ \E i \in 1..Len(Answers) : Answers[i] < 0
    /\ \E i \in 1..Len(Answers) : Answers[i] > 4
    /\ response.status = 200

\* C3: the band is "low" exactly for score <= 13, "moderate" exactly for
\* 14..26, "high" exactly for score >= 27, and the explanation is the one
\* fixed sentence of the band.
C3_BandThresholds ==
    Returned("/survey/pss10/score")
    => LET score == response.body.score
           band  == response.body.band
       IN  /\ band = "low" <=> score <= 13
           /\ band = "moderate" <=> (14 <= score /\ score <= 26)
           /\ band = "high" <=> score >= 27
           /\ band = "low" => response.body.explanation = "Low perceived stress"
           /\ band = "moderate" => response.body.explanation =
                  "Moderate perceived stress - consider regular check-ins"
           /\ band = "high" => response.body.explanation =
                  "High perceived stress - try immediate coping tools and consider professional support"

\* the lowest score of the high band
C3_Witness ==
    /\ Returned("/survey/pss10/score")
    /\ response.body.score = 27
    /\ response.body.band = "high"

AllSixFactors ==
    <<"elevated heart rate", "short sleep duration", "low self-reported mood",
      "very low activity", "typical peak hours", "high baseline stress">>

\* C4: heart_rate=110, sleep_hours=0, steps=0, mood_score=0, hour=10,
\* pss10_score=40 give predicted_level 1.0, risk_band "high" and all six
\* factors in the fixed order.
C4_WorstCaseHasAllSixFactors ==
    (/\ Returned("/predict")
     /\ request.body.heart_rate = 11000 /\ request.body.sleep_hours = 0
     /\ request.body.steps = Steps(0) /\ request.body.mood_score = 0
     /\ request.body.hour = 10 /\ request.body.pss10_score = <<40>>)
    => /\ response.body.predicted_level = One
       /\ response.body.risk_band = "high"
       /\ response.body.factors = AllSixFactors

\* a field of the /predict body is outside its declared range
PredictFieldOutOfRange(b) ==
    \/ b.heart_rate <= 0
    \/ b.sleep_hours < 0 \/ b.sleep_hours > 1400
    \/ b.steps.n < 0
    \/ b.day_of_week < 0 \/ b.day_of_week > 6
    \/ b.hour < 0 \/ b.hour > 23
    \/ b.mood_score < 0 \/ b.mood_score > 100
    \/ (b.pss10_score # <<>> /\ (b.pss10_score[1] < 0 \/ b.pss10_score[1] > 40))

\* |x - k/1000| <= 1/2000 on the exact value of the float x
WithinHalfThousandth(x, k) ==
    LET s == IF x.e < 0 THEN -x.e ELSE 0
        X == ShiftLeft[BigMulSmall[x.m, 2000], IF x.e > 0 THEN x.e ELSE 0]
        K == ShiftLeft[BigFromInt[2 * k], s]
        D == IF BigCmp[X, K] >= 0 THEN BigSub[X, K] ELSE BigSub[K, X]
    IN  BigCmp[D, ShiftLeft[<<1>>, s]] <= 0

\* C5: for every input that passes field validation, predict returns a
\* predicted_level that is in [0, 1] and is the clamped composite rounded
\* to 3 decimal places: it is the float of some k/1000 and k/1000 is
\* within half a thousandth of the composite.
C5_ValidInputsGetRoundedLevel ==
    (/\ Served("/predict")
     /\ PredictBodyParses(request.body)
     /\ ~PredictFieldOutOfRange(request.body))
    => /\ pc = "done"
       /\ response.status = 200
       /\ LET risk  == Risk(Components(request.body))
              level == response.body.predicted_level
              k     == NearestInt[BigMulSmall[level.m, 1000], -level.e]
          IN  /\ FGe[level, Zero] /\ FLe[level, One]
              /\ k \in 0..1000
              /\ level = FromRatio[k, 1000]
              /\ WithinHalfThousandth(risk, k)

\* C6: risk_band is "low" exactly when the clamped composite is < 0.33,
\* "moderate" exactly when it is >= 0.33 and < 0.66, "high" exactly when
\* it is >= 0.66; the composite is clamp01(0.35*hr + 0.25*sleep +
\* 0.15*mood + 0.10*steps + circadian + baseline).
C6_RiskBandThresholds ==
    (Returned("/predict") /\ response.status = 200)
    => LET c    == Components(request.body)
           sum  == FAdd[FAdd[FAdd[FAdd[FAdd[FMul[F_0_35, c.hr], FMul[F_0_25, c.sleep]],
                                       FMul[F_0_15, c.mood]],
                                  FMul[F_0_10, c.steps]],
                             c.circadian],
                        c.baseline]
           risk == FMax[Zero, FMin[One, sum]]
           band == response.body.risk_band
       IN  /\ band = "low" <=> FLess[risk, F_0_33]
           /\ band = "moderate" <=> (FGe[risk, F_0_33] /\ FLess[risk, F_0_66])
           /\ band = "high" <=> FGe[risk, F_0_66]

\* heart_rate=55, sleep_hours=8, steps=8000, mood_score=1, hour=10,
\* pss10_score=24: the float sum 0.15 + 0.18 is just below 0.33, the band
\* is "low" and the level reads 0.33
C6_Witness ==
    /\ Returned("/predict")
    /\ response.status = 200
    /\ response.body.risk_band = "low"
    /\ response.body.predicted_level = F_0_33

\* C7: a survey request whose answers are not exactly ten, and a /predict
\* request with a field outside its declared range, is rejected at the
\* boundary and its handler body never runs: the answer is 422, or 400
\* when the body is not even parsed.
C7_InvalidRequestsRejected ==
    /\ (Served("/survey/pss10/score") /\ Len(Answers) # 10)
       => (pc = "rejected" /\ response = [status |-> 422] /\ calls = {})
    /\ (Served("/predict") /\ PredictFieldOutOfRange(request.body))
       => /\ pc = "rejected"
          /\ response = [status |-> IF PredictBodyParses(request.body) THEN 422 ELSE 400]
          /\ calls = {}

\* a /predict request with heart_rate = 0 was rejected
C7_Witness ==
    /\ request.route = "/predict"
    /\ request.body.heart_rate = 0
    /\ pc = "rejected"
    /\ calls = {}

\* C8: /test always ends in a response and no fault leaves the handler:
\* a missing module, an import that raises, db = None, db.name raising
\* and list_collection_names() raising each end as a status text in the
\* "database" field.
C8_TestNeverFaults ==
    /\ (request.route = "/test" /\ pc = "received") => ENABLED TestDatabase
    /\ Returned("/test")
       => /\ response.status = 200
          /\ database.import = "ImportError"
             => response.body.database =
                    <<"Database module not found (run enable-database first)">>
          /\ database.import = "Exception"
             => response.body.database = <<"Error: ">> \o Take(database.message, 50)
          /\ (database.import = "ok" /\ database.db = "None")
             => response.body.database = <<"Available but not initialized">>
          /\ (database.import = "ok" /\ database.db = "object"
                /\ database.name = "ImportError")
             => response.body.database =
                    <<"Database module not found (run enable-database first)">>
          /\ (database.import = "ok" /\ database.db = "object"
                /\ database.name = "Exception")
             => response.body.database = <<"Error: ">> \o Take(database.message, 50)
          /\ (database.import = "ok" /\ database.db = "object"
                /\ database.name \notin Raised /\ database.list \in Raised)
             => response.body.database =
                    <<"Connected but Error: ">> \o Take(database.message, 50)

\* db.name raised with a message longer than 50 characters, and the
\* handler returned
C8_Witness ==
    /\ Returned("/test")
    /\ database.db = "object"
    /\ database.name = "Exception"
    /\ Len(database.message) > 50
    /\ response.status = 200

Contains(seq, x) == \E i \in 1..Len(seq) : seq[i] = x

\* C9: for every valid /predict input, factors is a duplicate-free
\* subsequence of the fixed tag order, each tag is present exactly when its
\* own unrounded component passes its threshold, and heart_rate=55,
\* sleep_hours=8, steps=8000, mood_score=1, hour=0 without pss10_score give
\* no factor.
C9_ValidInputsGetFactors ==
    (/\ Served("/predict")
     /\ PredictBodyParses(request.body)
     /\ ~PredictFieldOutOfRange(request.body))
    => /\ pc = "done"
       /\ response.status = 200
       /\ LET c       == Components(request.body)
              factors == response.body.factors
              Tagged(tag) == Contains(factors, tag)
          IN  /\ factors = SelectSeq(AllSixFactors, Tagged)
              /\ Tagged("elevated heart rate") <=> FLess[F_0_6, c.hr]
              /\ Tagged("short sleep duration") <=> FLess[F_0_6, c.sleep]
              /\ Tagged("low self-reported mood") <=> FLess[F_0_6, c.mood]
              /\ Tagged("very low activity") <=> FLess[F_0_4, c.steps]
              /\ Tagged("typical peak hours") <=> FLess[Zero, c.circadian]
              /\ Tagged("high baseline stress") <=> FLess[F_0_15, c.baseline]
              /\ (/\ request.body.heart_rate = 5500 /\ request.body.sleep_hours = 800
                  /\ request.body.steps = Steps(8000) /\ request.body.mood_score = 100
                  /\ request.body.hour = 0 /\ request.body.pss10_score = <<>>)
                 => factors = <<>>

\* C10 as stated: database_url and database_name say whether DATABASE_URL
\* and DATABASE_NAME are set.
C10_SetMeansSet ==
    Returned("/test")
    => /\ response.body.database_url =
              IF environ.DATABASE_URL # None THEN "Set" ELSE "Not Set"
       /\ response.body.database_name =
              IF environ.DATABASE_NAME # None THEN "Set" ELSE "Not Set"

\* C10, amended: database_url and database_name say whether DATABASE_URL
\* and DATABASE_NAME are set to a non-empty value, on every path of the
\* handler; what the try block wrote there from the collaborator
\* ("Configured", db.name, "Connected") never reaches the response.
C10_EnvironmentDecidesUrlAndName ==
    Returned("/test")
    => /\ response.status = 200
       /\ response.body.database_url =
              IF environ.DATABASE_URL \notin {None, ""} THEN "Set" ELSE "Not Set"
       /\ response.body.database_name =
              IF environ.DATABASE_NAME \notin {None, ""} THEN "Set" ELSE "Not Set"

\* the try block wrote "Configured" and db.name, and the response says
\* "Not Set" for both
C10_Witness ==
    /\ Returned("/test")
    /\ TryBody(InitialResponse, database).response.database_url = "Configured"
    /\ TryBody(InitialResponse, database).response.database_name = database.name_value
    /\ response.body.database_url = "Not Set"
    /\ response.body.database_name = "Not Set"


====
